---- MODULE Spec2Model ----
(***************************************************************************)
(* A model of src/src/Assignments/wallet.rs: the User account with its     *)
(* deposit/withdraw mutators and the Wallet ledger (a HashMap from account *)
(* number to User) with its create/read/update/delete operations.          *)
(*                                                                         *)
(* Every &mut self method of Wallet is one action.  The &self methods      *)
(* (balance_of, get_user, list_all_users) do not change the state and are  *)
(* state functions.  The balance is a u64; the model keeps the unsigned    *)
(* width but scales it to BalanceBits bits, so U64_MAX is 2^BalanceBits-1. *)
(* `self.balance += amount` panics on overflow in a build with overflow    *)
(* checks (the default of the dev profile) and wraps otherwise (the        *)
(* default of the release profile): the build is chosen in Init.           *)
(***************************************************************************)
EXTENDS Integers, FiniteSets, Sequences, Bags, TLC

VARIABLES
    wallet_details,   \* Wallet.wallet_details: account number -> User
    before,           \* history: wallet_details on entry to the last call
    call,             \* history: the last call, its method and arguments
    returned,         \* the Status the last call returned ("Unit" for add_user)
    overflow_checks,  \* the build: TRUE when arithmetic overflow panics
    panicked,         \* TRUE once the process has panicked (it is then gone)
    calls             \* number of calls the bounded driver has made

vars == <<wallet_details, before, call, returned, overflow_checks, panicked, calls>>

\* ------------------------------------------------------------------ bounds

\* Width of the balance type in bits, standing for the 64 of u64.
BalanceBits == 14

\* Number of calls the bounded driver of SpecMain makes at most.
MaxCalls == 8

\* ------------------------------------------------------------------- types

U64_MAX == 2^BalanceBits - 1

Bank == {"Opay", "PalmPay", "Kuda", "Moniepoint"}

Status == {"Success", "InsufficientFunds", "AccountNotFound"}

\* Option<T>
None == [tag |-> "None"]
Some(v) == [tag |-> "Some", val |-> v]

User_new(name, bank, account_number, balance) ==
    [name |-> name, bank |-> bank, account_number |-> account_number,
     balance |-> balance]

\* ------------------------------------------------------------------- User

\* A deposit that saturates at the largest balance instead of overflowing.
deposit_Saturating(self, amount) ==
    LET new == IF self.balance + amount > U64_MAX THEN U64_MAX
               ELSE self.balance + amount
    IN  [panic |-> FALSE, self |-> [self EXCEPT !.balance = new], ret |-> new]

\* self.balance += amount; self.balance
\* The addition panics on overflow when the build checks it, else it wraps.
deposit(self, amount) ==
    IF overflow_checks /\ self.balance + amount > U64_MAX
    THEN [panic |-> TRUE, self |-> self]
    ELSE LET new == (self.balance + amount) % (U64_MAX + 1)
         IN  [panic |-> FALSE, self |-> [self EXCEPT !.balance = new], ret |-> new]

\* A withdraw that also refuses to empty the account (<= for <).
withdraw_RefusesExact(self, amount) ==
    IF self.balance <= amount
    THEN [self |-> self, ret |-> "InsufficientFunds"]
    ELSE [self |-> [self EXCEPT !.balance = @ - amount], ret |-> "Success"]

\* A withdraw that pays out what is there when the funds do not suffice.
withdraw_Partial(self, amount) ==
    IF self.balance < amount
    THEN [self |-> [self EXCEPT !.balance = 0], ret |-> "InsufficientFunds"]
    ELSE [self |-> [self EXCEPT !.balance = @ - amount], ret |-> "Success"]

withdraw(self, amount) ==
    IF self.balance < amount
    THEN [self |-> self, ret |-> "InsufficientFunds"]
    ELSE [self |-> [self EXCEPT !.balance = @ - amount], ret |-> "Success"]

\* ---------------------------------------------------------------- HashMap

\* HashMap::insert: the entry at k is created or overwritten.
insert(map, k, v) ==
    [x \in DOMAIN map \cup {k} |-> IF x = k THEN v ELSE map[x]]

\* HashMap::remove
remove(map, k) ==
    [x \in DOMAIN map \ {k} |-> map[x]]

\* ----------------------------------------------------------------- Wallet

\* Entry to a &mut self method: a panicked process makes no more calls.
Invoke(c) ==
    /\ ~panicked
    /\ call' = c
    /\ before' = wallet_details
    /\ UNCHANGED overflow_checks

\* An add that keeps the account already stored under the number.
add_user_KeepFirst(user) ==
    /\ Invoke([op |-> "add_user", user |-> user])
    /\ wallet_details' =
         IF user.account_number \in DOMAIN wallet_details THEN wallet_details
         ELSE insert(wallet_details, user.account_number, user)
    /\ returned' = "Unit"
    /\ UNCHANGED panicked

\* An add that files every account under the first account number.
add_user_WrongKey(user) ==
    /\ Invoke([op |-> "add_user", user |-> user])
    /\ wallet_details' = insert(wallet_details, 1001, user)
    /\ returned' = "Unit"
    /\ UNCHANGED panicked

add_user(user) ==
    /\ Invoke([op |-> "add_user", user |-> user])
    /\ wallet_details' = insert(wallet_details, user.account_number, user)
    /\ returned' = "Unit"
    /\ UNCHANGED panicked

\* A deposit_to that reports Success without storing the deposit.
deposit_to_NoStore(account_number, amount) ==
    /\ Invoke([op |-> "deposit_to", account_number |-> account_number,
               amount |-> amount])
    /\ UNCHANGED <<wallet_details, panicked>>
    /\ returned' = IF account_number \in DOMAIN wallet_details
                   THEN "Success" ELSE "AccountNotFound"

deposit_to(account_number, amount) ==
    /\ Invoke([op |-> "deposit_to", account_number |-> account_number,
               amount |-> amount])
    /\ IF account_number \in DOMAIN wallet_details
       THEN LET r == deposit(wallet_details[account_number], amount)
            IN  IF r.panic
                THEN /\ panicked' = TRUE
                     /\ UNCHANGED <<wallet_details, returned>>
                ELSE /\ wallet_details' =
                          [wallet_details EXCEPT ![account_number] = r.self]
                     /\ returned' = "Success"
                     /\ UNCHANGED panicked
       ELSE /\ returned' = "AccountNotFound"
            /\ UNCHANGED <<wallet_details, panicked>>

\* A withdraw_from that drops the result of withdraw and reports Success.
withdraw_from_DropsResult(account_number, amount) ==
    /\ Invoke([op |-> "withdraw_from", account_number |-> account_number,
               amount |-> amount])
    /\ IF account_number \in DOMAIN wallet_details
       THEN LET r == withdraw(wallet_details[account_number], amount)
            IN  /\ wallet_details' =
                     [wallet_details EXCEPT ![account_number] = r.self]
                /\ returned' = "Success"
       ELSE /\ returned' = "AccountNotFound"
            /\ UNCHANGED wallet_details
    /\ UNCHANGED panicked

withdraw_from(account_number, amount) ==
    /\ Invoke([op |-> "withdraw_from", account_number |-> account_number,
               amount |-> amount])
    /\ IF account_number \in DOMAIN wallet_details
       THEN LET r == withdraw(wallet_details[account_number], amount)
            IN  /\ wallet_details' =
                     [wallet_details EXCEPT ![account_number] = r.self]
                /\ returned' = r.ret
       ELSE /\ returned' = "AccountNotFound"
            /\ UNCHANGED wallet_details
    /\ UNCHANGED panicked

balance_of(account_number) ==
    IF account_number \in DOMAIN wallet_details
    THEN Some(wallet_details[account_number].balance)
    ELSE None

get_user(account_number) ==
    IF account_number \in DOMAIN wallet_details
    THEN Some(wallet_details[account_number])
    ELSE None

\* values().collect(): the stored users in the map's iteration order, which is
\* unspecified; the bag of the values is what every order has in common.
list_all_users ==
    LET values == {wallet_details[k] : k \in DOMAIN wallet_details}
    IN  [u \in values |->
            Cardinality({k \in DOMAIN wallet_details : wallet_details[k] = u})]

\* An update that resets the bank when only a name is given.
update_user_ResetsBank(account_number, name, bank) ==
    /\ Invoke([op |-> "update_user", account_number |-> account_number,
               name |-> name, bank |-> bank])
    /\ IF account_number \in DOMAIN wallet_details
       THEN LET user == wallet_details[account_number]
                named == IF name.tag = "Some"
                         THEN [user EXCEPT !.name = name.val] ELSE user
                banked == IF bank.tag = "Some"
                          THEN [named EXCEPT !.bank = bank.val]
                          ELSE [named EXCEPT !.bank = "Opay"]
            IN  /\ wallet_details' =
                     [wallet_details EXCEPT ![account_number] = banked]
                /\ returned' = "Success"
       ELSE /\ returned' = "AccountNotFound"
            /\ UNCHANGED wallet_details
    /\ UNCHANGED panicked

update_user(account_number, name, bank) ==
    /\ Invoke([op |-> "update_user", account_number |-> account_number,
               name |-> name, bank |-> bank])
    /\ IF account_number \in DOMAIN wallet_details
       THEN LET user == wallet_details[account_number]
                named == IF name.tag = "Some"
                         THEN [user EXCEPT !.name = name.val] ELSE user
                banked == IF bank.tag = "Some"
                          THEN [named EXCEPT !.bank = bank.val] ELSE named
            IN  /\ wallet_details' =
                     [wallet_details EXCEPT ![account_number] = banked]
                /\ returned' = "Success"
       ELSE /\ returned' = "AccountNotFound"
            /\ UNCHANGED wallet_details
    /\ UNCHANGED panicked

\* A remove that reports Success also for an account that is not there.
remove_user_AlwaysSuccess(account_number) ==
    /\ Invoke([op |-> "remove_user", account_number |-> account_number])
    /\ wallet_details' = remove(wallet_details, account_number)
    /\ returned' = "Success"
    /\ UNCHANGED panicked

\* A remove that reports Success and leaves the account in the map.
remove_user_KeepsEntry(account_number) ==
    /\ Invoke([op |-> "remove_user", account_number |-> account_number])
    /\ UNCHANGED wallet_details
    /\ returned' = IF account_number \in DOMAIN wallet_details
                   THEN "Success" ELSE "AccountNotFound"
    /\ UNCHANGED panicked

remove_user(account_number) ==
    /\ Invoke([op |-> "remove_user", account_number |-> account_number])
    /\ wallet_details' = remove(wallet_details, account_number)
    /\ returned' = IF account_number \in DOMAIN wallet_details
                   THEN "Success" ELSE "AccountNotFound"
    /\ UNCHANGED panicked

\* ------------------------------------------------------------ the drivers

\* Wallet::new(): the empty map; no call has been made or has returned.
Init ==
    /\ wallet_details = <<>>
    /\ before = <<>>
    /\ call = [op |-> "none"]
    /\ returned = "NoCall"
    /\ overflow_checks \in BOOLEAN
    /\ panicked = FALSE
    /\ calls = 0

\* Inputs of the unbounded driver: two account numbers, balances and amounts at
\* the ends and the middle of the balance type, two names, every bank.
Half == 2^(BalanceBits - 1)
TestNumbers == {1001, 1002}
TestAmounts == {0, Half}
TestNames == {"Ada", "Ada Obi"}
TestUsers ==
    {User_new("Ada", "Opay", n, b) : n \in TestNumbers, b \in {0, Half, U64_MAX}}
        \cup {User_new("Ada Obi", "Moniepoint", n, 0) : n \in TestNumbers}
OptNames == {None} \cup {Some(s) : s \in TestNames}
OptBanks == {None} \cup {Some(b) : b \in {"Opay", "Moniepoint"}}

\* Any caller of the Wallet: every method, with any of the inputs.
Next ==
    \/ \E user \in TestUsers : add_user(user) /\ UNCHANGED calls
    \/ \E n \in TestNumbers, a \in TestAmounts :
          deposit_to(n, a) /\ UNCHANGED calls
    \/ \E n \in TestNumbers, a \in TestAmounts :
          withdraw_from(n, a) /\ UNCHANGED calls
    \/ \E n \in TestNumbers, name \in OptNames, bank \in OptBanks :
          update_user(n, name, bank) /\ UNCHANGED calls
    \/ \E n \in TestNumbers : remove_user(n) /\ UNCHANGED calls

Spec == Init /\ [][Next]_vars

\* main's three users and the arguments of its calls.
user1 == User_new("Uche", "Kuda", 1001, 5000)
user2 == User_new("Ada", "Opay", 1002, 8500)
user3 == User_new("Chidi", "PalmPay", 1003, 10000)
MainUsers == {user1, user2, user3}
MainNumbers == {1001, 1002, 1003}

\* One more call of the bounded driver.
Count ==
    /\ calls < MaxCalls
    /\ calls' = calls + 1

\* The calls of main with main's arguments, on any of its accounts, in any
\* order, at most MaxCalls of them.
NextMain ==
    \/ \E user \in MainUsers : add_user(user) /\ Count
    \/ update_user(1002, Some("Ada Obi"), Some("Moniepoint")) /\ Count
    \/ \E n \in MainNumbers : deposit_to(n, 4000) /\ Count
    \/ \E n \in MainNumbers : withdraw_from(n, 7000) /\ Count
    \/ \E n \in MainNumbers : remove_user(n) /\ Count

SpecMain == Init /\ [][NextMain]_vars

\* ------------------------------------------------------------- the claims

\* The last call was `op` on an account that was in the ledger at its entry.
OnPresent(op) ==
    /\ call.op = op
    /\ call.account_number \in DOMAIN before

\* The last call was `op` on a number that was no key of the ledger.
OnAbsent(op) ==
    /\ call.op = op
    /\ call.account_number \notin DOMAIN before

\* Every account other than number n is as it was at the call's entry.
OthersUnchanged(n) ==
    \A k \in DOMAIN before \ {n} :
        k \in DOMAIN wallet_details /\ wallet_details[k] = before[k]

\* C1, as stated: a deposit_to of any amount d to a present account with
\* balance b reports Success, and balance_of then returns b + d.
C1_DepositAnyAmount ==
    OnPresent("deposit_to") =>
        /\ ~panicked
        /\ returned = "Success"
        /\ balance_of(call.account_number)
             = Some(before[call.account_number].balance + call.amount)

\* C1, amended: a deposit_to of an amount d to a present account with balance
\* b, where b + d does not exceed the largest balance, reports Success, and
\* balance_of then returns b + d.
C1_DepositWithinWidth ==
    (/\ OnPresent("deposit_to")
     /\ before[call.account_number].balance + call.amount <= U64_MAX) =>
        /\ ~panicked
        /\ returned = "Success"
        /\ balance_of(call.account_number)
             = Some(before[call.account_number].balance + call.amount)

\* A deposit of a positive amount to a positive balance that fits the width.
C1_Witness ==
    /\ OnPresent("deposit_to")
    /\ call.amount > 0
    /\ before[call.account_number].balance > 0
    /\ before[call.account_number].balance + call.amount <= U64_MAX
    /\ returned = "Success"

\* C2: a withdraw_from of w <= b from a present account with balance b
\* (w = b and w = 0 included) reports Success, and balance_of returns b - w.
C2_WithdrawWithinBalance ==
    (/\ OnPresent("withdraw_from")
     /\ call.amount <= before[call.account_number].balance) =>
        /\ returned = "Success"
        /\ balance_of(call.account_number)
             = Some(before[call.account_number].balance - call.amount)

\* A withdrawal of exactly the (positive) balance, which empties the account.
C2_Witness ==
    /\ OnPresent("withdraw_from")
    /\ call.amount > 0
    /\ call.amount = before[call.account_number].balance
    /\ returned = "Success"
    /\ balance_of(call.account_number) = Some(0)

\* C3: a withdraw_from of w > b from a present account with balance b reports
\* InsufficientFunds and changes nothing: not the balance, not the account's
\* name, bank or number, not the rest of the ledger.
C3_InsufficientFundsNoChange ==
    (/\ OnPresent("withdraw_from")
     /\ call.amount > before[call.account_number].balance) =>
        /\ returned = "InsufficientFunds"
        /\ balance_of(call.account_number)
             = Some(before[call.account_number].balance)
        /\ wallet_details = before

\* A withdrawal refused on an account that holds something, beside another.
C3_Witness ==
    /\ OnPresent("withdraw_from")
    /\ before[call.account_number].balance > 0
    /\ call.amount > before[call.account_number].balance
    /\ returned = "InsufficientFunds"
    /\ Cardinality(DOMAIN before) = 2

\* C4: deposit_to, withdraw_from, update and remove on a number that is no key
\* of the ledger report AccountNotFound and leave the ledger as it was;
\* balance_of and get of a number that is no key return none.
C4_AbsentAccountNotFound ==
    /\ (\/ OnAbsent("deposit_to")
        \/ OnAbsent("withdraw_from")
        \/ OnAbsent("update_user")
        \/ OnAbsent("remove_user")) =>
            /\ returned = "AccountNotFound"
            /\ wallet_details = before
            /\ ~panicked
    /\ \A n \in MainNumbers \ DOMAIN wallet_details :
            /\ balance_of(n) = None
            /\ get_user(n) = None

\* A remove of an absent number from a ledger that holds another account.
C4_Witness ==
    /\ OnAbsent("remove_user")
    /\ before # <<>>
    /\ returned = "AccountNotFound"

\* C5: after remove(n) reports Success, get(n) returns none; a remove(n) that
\* follows immediately reports AccountNotFound; and a number that is absent
\* becomes present only by an add of an account with that number.
C5_RemovedStaysAbsent ==
    [][\A n \in MainNumbers :
        /\ (/\ call'.op = "remove_user"
            /\ call'.account_number = n
            /\ returned' = "Success") => get_user(n)' = None
        /\ (/\ call.op = "remove_user"
            /\ call.account_number = n
            /\ returned = "Success"
            /\ call'.op = "remove_user"
            /\ call'.account_number = n) => returned' = "AccountNotFound"
        /\ (/\ n \notin DOMAIN wallet_details
            /\ n \in DOMAIN wallet_details') =>
                /\ call'.op = "add_user"
                /\ call'.user.account_number = n]_vars

\* A remove that succeeded on an account that was there.
C5_Witness ==
    /\ OnPresent("remove_user")
    /\ returned = "Success"
    /\ get_user(call.account_number) = None

\* C6: an update of a present account reports Success; a field given as None
\* keeps its value and a field given as Some takes the new one; the balance
\* and the account number stay, and so does every other account.
C6_UpdateOnlyGivenFields ==
    OnPresent("update_user") =>
        LET old == before[call.account_number]
            new == wallet_details[call.account_number]
        IN  /\ returned = "Success"
            /\ DOMAIN wallet_details = DOMAIN before
            /\ new.name = IF call.name.tag = "Some" THEN call.name.val
                          ELSE old.name
            /\ new.bank = IF call.bank.tag = "Some" THEN call.bank.val
                          ELSE old.bank
            /\ new.balance = old.balance
            /\ new.account_number = old.account_number
            /\ OthersUnchanged(call.account_number)

\* An update with a new name and no bank, of an account at another bank than
\* the first of the enum, with a balance.
C6_Witness ==
    /\ OnPresent("update_user")
    /\ call.name.tag = "Some"
    /\ call.name.val # before[call.account_number].name
    /\ call.bank.tag = "None"
    /\ before[call.account_number].bank = "Moniepoint"
    /\ returned = "Success"
    /\ wallet_details[call.account_number].bank = "Moniepoint"

\* C7: add stores the account under its own number, replacing what was there:
\* get(number) returns the account just added, a duplicate add does not grow
\* the ledger, and the entries under other numbers are unchanged.
C7_AddLastWriteWins ==
    call.op = "add_user" =>
        LET n == call.user.account_number
        IN  /\ get_user(n) = Some(call.user)
            /\ DOMAIN wallet_details = DOMAIN before \cup {n}
            /\ n \in DOMAIN before =>
                 Cardinality(DOMAIN wallet_details) = Cardinality(DOMAIN before)
            /\ n \notin DOMAIN before =>
                 Cardinality(DOMAIN wallet_details)
                   = Cardinality(DOMAIN before) + 1
            /\ OthersUnchanged(n)

\* A duplicate add that replaced a different account, beside another account.
C7_Witness ==
    /\ call.op = "add_user"
    /\ call.user.account_number \in DOMAIN before
    /\ before[call.user.account_number] # call.user
    /\ Cardinality(DOMAIN before) = 2
    /\ get_user(call.user.account_number) = Some(call.user)

\* C8: the scenario of main.  From 1001 at 5000, deposit_to(1001, 4000)
\* reports Success and leaves 9000; from 1002 at 8500, withdraw_from(1002,
\* 7000) reports Success and leaves 1500; from 1002 at 1500 the same withdrawal
\* reports InsufficientFunds and leaves 1500; with the three accounts stored,
\* remove(1003) reports Success, get(1003) returns none and 2 accounts remain.
C8_MainScenario ==
    /\ (/\ call = [op |-> "deposit_to", account_number |-> 1001, amount |-> 4000]
        /\ 1001 \in DOMAIN before
        /\ before[1001].balance = 5000) =>
            /\ returned = "Success"
            /\ balance_of(1001) = Some(9000)
    /\ (/\ call = [op |-> "withdraw_from", account_number |-> 1002,
                   amount |-> 7000]
        /\ 1002 \in DOMAIN before
        /\ before[1002].balance = 8500) =>
            /\ returned = "Success"
            /\ balance_of(1002) = Some(1500)
    /\ (/\ call = [op |-> "withdraw_from", account_number |-> 1002,
                   amount |-> 7000]
        /\ 1002 \in DOMAIN before
        /\ before[1002].balance = 1500) =>
            /\ returned = "InsufficientFunds"
            /\ balance_of(1002) = Some(1500)
    /\ (/\ call = [op |-> "remove_user", account_number |-> 1003]
        /\ DOMAIN before = MainNumbers) =>
            /\ returned = "Success"
            /\ get_user(1003) = None
            /\ BagCardinality(list_all_users) = 2

\* The end of the scenario: 1003 removed from the ledger in which 1001 holds
\* 9000 after the deposit and 1002 holds 1500 after the withdrawal.
C8_Witness ==
    /\ call = [op |-> "remove_user", account_number |-> 1003]
    /\ DOMAIN before = MainNumbers
    /\ before[1001].balance = 9000
    /\ before[1002].balance = 1500
    /\ before[1003] = user3
    /\ returned = "Success"
    /\ get_user(1003) = None
    /\ BagCardinality(list_all_users) = 2

\* C9, as stated: deposit cannot fail and returns (and stores) balance +
\* amount for every balance and amount, also when the sum exceeds the largest
\* value of the balance type.
C9_DepositNeverOverflows ==
    OnPresent("deposit_to") =>
        LET self == before[call.account_number]
            r == deposit(self, call.amount)
        IN  /\ ~r.panic
            /\ r.ret = self.balance + call.amount
            /\ ~panicked
            /\ wallet_details[call.account_number].balance
                 = self.balance + call.amount

\* C9, amended: deposit returns and stores balance + amount when the sum does
\* not exceed the largest value of the balance type.  When it does, deposit
\* panics in a build with overflow checks, the balance unchanged, and in a
\* build without them returns and stores the sum less 2^width.
C9_DepositAddsOrOverflows ==
    OnPresent("deposit_to") =>
        LET self == before[call.account_number]
            sum == self.balance + call.amount
            r == deposit(self, call.amount)
        IN  IF sum <= U64_MAX
            THEN /\ ~r.panic
                 /\ r.ret = sum
                 /\ r.self = [self EXCEPT !.balance = sum]
                 /\ ~panicked
                 /\ wallet_details[call.account_number] = r.self
            ELSE IF overflow_checks
            THEN /\ r.panic
                 /\ panicked
                 /\ wallet_details = before
            ELSE /\ ~r.panic
                 /\ r.ret = sum - (U64_MAX + 1)
                 /\ ~panicked
                 /\ wallet_details[call.account_number].balance = r.ret

\* A deposit whose sum exceeds the largest balance, in the build that wraps.
C9_Witness ==
    /\ OnPresent("deposit_to")
    /\ before[call.account_number].balance + call.amount > U64_MAX
    /\ ~overflow_checks
    /\ ~panicked
    /\ wallet_details[call.account_number].balance
         < before[call.account_number].balance

\* C10: every key of the ledger maps to one account whose account_number is
\* the key, so no two stored accounts share a number, and every stored
\* balance is at least 0.
C10_KeysMatchAccounts ==
    /\ \A k \in DOMAIN wallet_details :
          /\ wallet_details[k].account_number = k
          /\ wallet_details[k].balance >= 0
    /\ \A j, k \in DOMAIN wallet_details :
          j # k => wallet_details[j].account_number
                     # wallet_details[k].account_number

\* Two accounts stored, the second just added beside the first.
C10_Witness ==
    /\ call.op = "add_user"
    /\ call.user.account_number = 1002
    /\ DOMAIN before = {1001}
    /\ DOMAIN wallet_details = {1001, 1002}
    /\ wallet_details[1002].account_number = 1002

====
